---- MODULE Spec2Model ----
(***************************************************************************)
(* NetSentry (src/app.py): the rule evaluator with its per-source login    *)
(* attempt tracker and alert store, the /alerts, /stats and DELETE /alerts *)
(* endpoints, the event loop that serves /analyze, and the feature aligner *)
(* with the prediction wrapper.                                            *)
(*                                                                         *)
(* Text is a sequence of one-character strings, so that lower(), upper(),  *)
(* substring search and the regular expressions are computed.  An          *)
(* Optional[...] value is None (the empty tuple) or Some(x) (a 1-tuple).   *)
(***************************************************************************)
EXTENDS Integers, Sequences, FiniteSets, TLC

VARIABLES
    alerts_database,   \* app.py:230  the list of stored alerts
    login_attempts,    \* app.py:233  defaultdict(list): src_ip -> timestamps
    now,               \* datetime.utcnow(), in clock ticks
    response,          \* what the last endpoint call answered (and was given)
    arrivals,          \* history: per source, the timestamps of the login attempts since the last clear
    issued,            \* history: every alert ever created (id, type, source), in creation order
    calls,             \* history: the number of endpoint calls served
    pc,                \* event loop: each in-flight /analyze request's position
    req_log,           \* event loop: each request's log
    req_detected,      \* event loop: each request's detected_alerts
    running,           \* event loop: the request that holds the loop (0: none)
    history,           \* history: the store the loop started on, and whether a handler ran while another request waited
    ml_models,         \* app.py:35   the artifact dictionary
    models_loaded,     \* app.py:64
    ml_features,       \* the MLFeatures record of the prediction call
    ml_response        \* what the last prediction call answered

vars == <<alerts_database, login_attempts, now, response, arrivals, issued, calls,
          pc, req_log, req_detected, running, history,
          ml_models, models_loaded, ml_features, ml_response>>

coreVars == <<alerts_database, login_attempts, now, response, arrivals, issued, calls>>
loopVars == <<pc, req_log, req_detected, running, history>>
mlVars == <<ml_models, models_loaded, ml_features, ml_response>>

-----------------------------------------------------------------------------
(* Optional values, text                                                   *)

None == <<>>
Some(x) == <<x>>

Min(a, b) == IF a < b THEN a ELSE b
Max(a, b) == IF a > b THEN a ELSE b

UpperLetters == <<"A","B","C","D","E","F","G","H","I","J","K","L","M","N","O","P","Q","R","S","T","U","V","W","X","Y","Z">>
LowerLetters == <<"a","b","c","d","e","f","g","h","i","j","k","l","m","n","o","p","q","r","s","t","u","v","w","x","y","z">>

IndexIn(c, letters) == CHOOSE i \in 1..Len(letters) : letters[i] = c
Range(letters) == {letters[i] : i \in 1..Len(letters)}

\* The case mappings of the ASCII letters; every other character maps to itself.
UpperSet == Range(UpperLetters)
LowerSet == Range(LowerLetters)
ToLower == [c \in UpperSet |-> LowerLetters[IndexIn(c, UpperLetters)]]
ToUpper == [c \in LowerSet |-> UpperLetters[IndexIn(c, LowerLetters)]]

\* str.lower(), str.upper()
StrLower(s) == [i \in 1..Len(s) |-> IF s[i] \in UpperSet THEN ToLower[s[i]] ELSE s[i]]
StrUpper(s) == [i \in 1..Len(s) |-> IF s[i] \in LowerSet THEN ToUpper[s[i]] ELSE s[i]]

\* `sub in s`
StrContains(s, sub) == \E i \in 0..(Len(s) - Len(sub)) : SubSeq(s, i + 1, i + Len(sub)) = sub

\* s[k:] for a Python list or str, k of either sign
PySliceFrom(s, k) ==
    LET start == IF k < 0 THEN Max(Len(s) + k, 0) ELSE Min(k, Len(s))
    IN  SubSeq(s, start + 1, Len(s))

\* s[:n], n >= 0
PySliceTo(s, n) == SubSeq(s, 1, Min(n, Len(s)))

-----------------------------------------------------------------------------
(* The tables                                                              *)

SUSPICIOUS_IPS == {"192.168.100.100", "10.0.0.666", "172.16.0.100", "203.0.113.0"}

HexRunMin == 32
HexDigits == {"a","b","c","d","e","f","0","1","2","3","4","5","6","7","8","9"}

\* A pattern is its source text (what matched_pattern records) and what it matches:
\* "end": the literal, at the end of the text or before a newline that ends the text ($);
\* "lit": the literal anywhere; "hex": a run of at least HexRunMin characters of [a-f0-9].
SUSPICIOUS_DNS_PATTERNS ==
    << [src |-> "\\.ru$",          kind |-> "end", lit |-> <<".","r","u">>],
       [src |-> "\\.tk$",          kind |-> "end", lit |-> <<".","t","k">>],
       [src |-> "malware",         kind |-> "lit", lit |-> <<"m","a","l","w","a","r","e">>],
       [src |-> "phishing",        kind |-> "lit", lit |-> <<"p","h","i","s","h","i","n","g">>],
       [src |-> "botnet",          kind |-> "lit", lit |-> <<"b","o","t","n","e","t">>],
       [src |-> "c2server",        kind |-> "lit", lit |-> <<"c","2","s","e","r","v","e","r">>],
       [src |-> "[a-f0-9]{32,}",   kind |-> "hex", lit |-> <<>>] >>

HTTP_SUSPICIOUS_KEYWORDS ==
    << <<"l","o","g","i","n">>,
       <<"a","d","m","i","n">>,
       <<"p","a","s","s","w","o","r","d">>,
       <<"a","u","t","h">>,
       <<"s","i","g","n","i","n">>,
       <<"a","u","t","h","e","n","t","i","c","a","t","e">> >>

EndsWith(s, lit) == Len(s) >= Len(lit) /\ SubSeq(s, Len(s) - Len(lit) + 1, Len(s)) = lit

\* re.search(pattern, s)
re_search(p, s) ==
    CASE p.kind = "end" ->
            \/ EndsWith(s, p.lit)
            \/ Len(s) > 0 /\ s[Len(s)] = "\n" /\ EndsWith(SubSeq(s, 1, Len(s) - 1), p.lit)
      [] p.kind = "lit" -> StrContains(s, p.lit)
      [] p.kind = "hex" ->
            \E i \in 1..(Len(s) - HexRunMin + 1) :
                \A j \in i..(i + HexRunMin - 1) : s[j] \in HexDigits

-----------------------------------------------------------------------------
(* Alerts and the three rules                                              *)

HIGH == <<"H","I","G","H">>
LOW == <<"L","O","W">>
MEDIUM == <<"M","E","D","I","U","M">>

WindowSize == 10
Threshold == 5
SnippetLen == 100

\* The clock counts ticks; strftime('%Y%m%d%H%M%S') keeps the whole seconds,
\* isoformat() keeps the full reading.
TicksPerSecond == 2
strftime(t) == t \div TicksPerSecond
isoformat(t) == "utc+" \o ToString(t)

generate_alert_id(db, t) == <<"ALERT", strftime(t), Len(db) + 1>>

NoAlert == [kind |-> "none"]

\* Alert(...): the pydantic model validates its fields; timestamp: str refuses None
\* (ValidationError), every other field is given a value of its type by the rules.
Alert(id, severity, type, description, log, metadata) ==
    IF log.timestamp = None
    THEN [kind |-> "raise"]
    ELSE [kind |-> "alert",
          alert |-> [alert_id |-> id, severity |-> severity, alert_type |-> type,
                     description |-> description, src_ip |-> log.src_ip,
                     dst_ip |-> log.dst_ip, protocol |-> log.protocol,
                     timestamp |-> log.timestamp[1], metadata |-> metadata]]

\* bool(log.payload): neither None nor ""
Truthy(o) == o # None /\ Len(o[1]) > 0

check_suspicious_ip(log, db, t) ==
    IF log.src_ip \in SUSPICIOUS_IPS
    THEN Alert(generate_alert_id(db, t), HIGH, "SUSPICIOUS_SOURCE_IP",
               <<"Traffic detected from known suspicious IP: ", log.src_ip>>,
               log, [reason |-> "IP in blacklist"])
    ELSE NoAlert

\* A condition that would take HTTPS for HTTP
IsWebLoginAttempt(log) ==
    /\ log.protocol \in {"HTTP", "HTTPS"}
    /\ Truthy(log.payload)
    /\ \E k \in 1..Len(HTTP_SUSPICIOUS_KEYWORDS) :
           StrContains(StrLower(log.payload[1]), HTTP_SUSPICIOUS_KEYWORDS[k])

\* lines 298-302: the condition under which the login rule records an attempt
IsLoginAttempt(log) ==
    /\ log.protocol = "HTTP"
    /\ Truthy(log.payload)
    /\ \E k \in 1..Len(HTTP_SUSPICIOUS_KEYWORDS) :
           StrContains(StrLower(log.payload[1]), HTTP_SUSPICIOUS_KEYWORDS[k])

\* login_attempts[src] of the defaultdict: a missing key reads as []
Attempts(la, src) == IF src \in DOMAIN la THEN la[src] ELSE <<>>

\* lines 308-309: keep only the last WindowSize entries
KeepRecent(record) ==
    IF Len(record) > WindowSize THEN PySliceFrom(record, -WindowSize) ELSE record

StoreRecord(la, src, record) ==
    [k \in DOMAIN la \cup {src} |-> IF k = src THEN record ELSE la[k]]

\* lines 304-309: append, then truncate
TrackAttempt(la, log) ==
    StoreRecord(la, log.src_ip, KeepRecent(Append(Attempts(la, log.src_ip), log.timestamp)))

\* lines 312-326: the threshold check on the tracked record; la is the tracker
\* after TrackAttempt.  Returns the tracker and the rule's result.
CheckThreshold(la, log, db, t) ==
    [la |-> la,
     res |-> IF Len(la[log.src_ip]) >= Threshold
             THEN Alert(generate_alert_id(db, t), MEDIUM, "EXCESSIVE_LOGIN_ATTEMPTS",
                        <<"Multiple login attempts detected from ", log.src_ip>>,
                        log, [attempt_count |-> Len(la[log.src_ip]),
                              payload_snippet |-> PySliceTo(log.payload[1], SnippetLen)])
             ELSE NoAlert]

check_login_attempts(log, db, la, t) ==
    IF IsLoginAttempt(log)
    THEN CheckThreshold(TrackAttempt(la, log), log, db, t)
    ELSE [la |-> la, res |-> NoAlert]

\* The for loop of lines 338-353: the index of the first pattern that matches, 0 if none.
RECURSIVE FirstMatch(_, _)
FirstMatch(i, s) ==
    IF i > Len(SUSPICIOUS_DNS_PATTERNS) THEN 0
    ELSE IF re_search(SUSPICIOUS_DNS_PATTERNS[i], s) THEN i
    ELSE FirstMatch(i + 1, s)

\* lines 340-354, for the pattern index m the loop stopped at
DnsAlert(m, log, db, t) ==
    IF m = 0 THEN NoAlert
    ELSE Alert(generate_alert_id(db, t), HIGH, "SUSPICIOUS_DNS_QUERY",
               <<"Suspicious DNS query detected: ", log.payload[1]>>,
               log, [query |-> log.payload[1],
                     matched_pattern |-> SUSPICIOUS_DNS_PATTERNS[m].src])

\* A DNS rule that would look at the payload of every protocol
check_any_payload(log, db, t) ==
    IF Truthy(log.payload)
    THEN DnsAlert(FirstMatch(1, StrLower(log.payload[1])), log, db, t)
    ELSE NoAlert

check_suspicious_dns(log, db, t) ==
    IF log.protocol = "DNS" /\ Truthy(log.payload)
    THEN DnsAlert(FirstMatch(1, StrLower(log.payload[1])), log, db, t)
    ELSE NoAlert

detection_rules == <<"check_suspicious_ip", "check_login_attempts", "check_suspicious_dns">>

\* rule(log): the tracker after it and its result
CallRule(rule, log, db, la, t) ==
    CASE rule = "check_suspicious_ip"  -> [la |-> la, res |-> check_suspicious_ip(log, db, t)]
      [] rule = "check_login_attempts" -> check_login_attempts(log, db, la, t)
      [] rule = "check_suspicious_dns" -> [la |-> la, res |-> check_suspicious_dns(log, db, t)]

\* lines 373-375 on the running state acc = [db, la, detected, raised], for what
\* the rule returned; an exception leaves the loop.
Collect(acc, r) ==
    CASE r.res.kind = "raise" -> [acc EXCEPT !.la = r.la, !.raised = TRUE]
      [] r.res.kind = "alert" -> [acc EXCEPT !.la = r.la,
                                             !.detected = Append(@, r.res.alert),
                                             !.db = Append(@, r.res.alert)]
      [] r.res.kind = "none"  -> [acc EXCEPT !.la = r.la]

\* The loop of lines 371-375 from rule i on
RECURSIVE RunRules(_, _, _, _)
RunRules(i, log, acc, t) ==
    IF i > Len(detection_rules) \/ acc.raised THEN acc
    ELSE RunRules(i + 1, log,
                  Collect(acc, CallRule(detection_rules[i], log, acc.db, acc.la, t)), t)

analyze_log(log, db, la, t) ==
    RunRules(1, log, [db |-> db, la |-> la, detected |-> <<>>, raised |-> FALSE], t)

-----------------------------------------------------------------------------
(* The endpoints, as functions of the stored state                         *)

EmptyDict == [k \in {} |-> <<>>]

\* The alerts a call appended, as the history keeps them
NewlyIssued(before, after) ==
    [i \in 1..(Len(after) - Len(before)) |->
        [alert_id |-> after[Len(before) + i].alert_id,
         alert_type |-> after[Len(before) + i].alert_type,
         src_ip |-> after[Len(before) + i].src_ip]]

\* The stored state and the histories after analyze_log(log) returned or raised out.
\* An exception raised by a rule leaves analyze_log and becomes the HTTP 500 of
\* analyze_traffic (lines 772-773); what the rules changed before it stays.
Outcome(log, st, out) ==
    [db |-> out.db,
     la |-> out.la,
     arrivals |-> IF IsLoginAttempt(log)
                  THEN StoreRecord(st.arrivals, log.src_ip,
                                   Append(Attempts(st.arrivals, log.src_ip), log.timestamp))
                  ELSE st.arrivals,
     issued |-> st.issued \o NewlyIssued(st.db, out.db),
     response |-> IF out.raised
                  THEN [op |-> "analyze_traffic", log |-> log, http |-> 500,
                        status |-> "error", alerts |-> <<>>]
                  ELSE [op |-> "analyze_traffic", log |-> log, http |-> 200,
                        status |-> IF out.detected # <<>> THEN "alert" ELSE "clean",
                        alerts |-> out.detected]]

AnalyzeOutcome(log, st, t) == Outcome(log, st, analyze_log(log, st.db, st.la, t))

Constructed ==
    [db |-> <<>>, la |-> EmptyDict, arrivals |-> EmptyDict, issued |-> <<>>,
     response |-> [op |-> "start"]]

\* The state after the logs of a sequence were analyzed one after the other.
RECURSIVE Replay(_, _, _)
Replay(logs, st, t) ==
    IF logs = <<>> THEN st
    ELSE Replay(Tail(logs), AnalyzeOutcome(Head(logs), st, t), t)

\* lines 794-795
FilterSeverity(db, severity) ==
    IF Truthy(severity)
    THEN SelectSeq(db, LAMBDA a : a.severity = StrUpper(severity[1]))
    ELSE db

\* lines 798-799
ApplyLimit(alerts, limit) ==
    IF limit # None /\ limit[1] # 0 THEN PySliceFrom(alerts, -limit[1]) ELSE alerts

\* lines 801-805
AlertsAnswer(db, severity, limit, filtered_alerts) ==
    [op |-> "get_alerts", severity |-> severity, limit |-> limit,
     total_alerts |-> Len(db),
     filtered_count |-> Len(filtered_alerts),
     alerts |-> filtered_alerts]

AlertsQuery(db, severity, limit) ==
    AlertsAnswer(db, severity, limit, ApplyLimit(FilterSeverity(db, severity), limit))

\* lines 868-873: a defaultdict(int) counting one field of the stored alerts
CountBy(db, field) ==
    [v \in {db[i][field] : i \in DOMAIN db} |-> Cardinality({i \in DOMAIN db : db[i][field] = v})]

\* lines 875-881
Statistics(db, la) ==
    [op |-> "get_statistics",
     total_alerts |-> Len(db),
     by_severity |-> CountBy(db, "severity"),
     by_type |-> CountBy(db, "alert_type"),
     monitored_ips |-> Cardinality(DOMAIN la),
     suspicious_ip_count |-> Cardinality(SUSPICIOUS_IPS)]

-----------------------------------------------------------------------------
(* The endpoints, as actions                                               *)

\* The store after a call of analyze_log with outcome o
StoreOutcome(o) ==
    /\ alerts_database' = o.db
    /\ login_attempts' = o.la
    /\ arrivals' = o.arrivals
    /\ issued' = o.issued
    /\ response' = o.response

analyze_traffic(log) ==
    /\ StoreOutcome(AnalyzeOutcome(log, [db |-> alerts_database, la |-> login_attempts,
                                         arrivals |-> arrivals, issued |-> issued], now))
    /\ calls' = calls + 1
    /\ UNCHANGED <<now, loopVars, mlVars>>

get_alerts(severity, limit) ==
    /\ response' = AlertsQuery(alerts_database, severity, limit)
    /\ calls' = calls + 1
    /\ UNCHANGED <<alerts_database, login_attempts, now, arrivals, issued, loopVars, mlVars>>

\* A clear that would empty the sink and leave the tracker as it is
clear_sink_only ==
    /\ alerts_database' = <<>>
    /\ response' = [op |-> "clear_alerts", message |-> "All alerts cleared", status |-> "success"]
    /\ calls' = calls + 1
    /\ UNCHANGED <<login_attempts, arrivals, now, issued, loopVars, mlVars>>

clear_alerts ==
    /\ alerts_database' = <<>>
    /\ login_attempts' = EmptyDict
    /\ arrivals' = EmptyDict
    /\ response' = [op |-> "clear_alerts", message |-> "All alerts cleared", status |-> "success"]
    /\ calls' = calls + 1
    /\ UNCHANGED <<now, issued, loopVars, mlVars>>

get_statistics ==
    /\ response' = Statistics(alerts_database, login_attempts)
    /\ calls' = calls + 1
    /\ UNCHANGED <<alerts_database, login_attempts, now, arrivals, issued, loopVars, mlVars>>

\* The clock advances between calls.
Tick ==
    /\ now' = now + 1
    /\ UNCHANGED <<alerts_database, login_attempts, response, arrivals, issued, calls, loopVars, mlVars>>

-----------------------------------------------------------------------------
(* The inputs                                                              *)

P_GetIndex == <<"G","E","T"," ","/","i","n","d","e","x">>
P_PostLogin == <<"P","O","S","T"," ","/","L","o","g","i","n">>
P_AuthBotnet == <<"a","u","t","h",".","b","o","t","n","e","t",".","i","o">>
P_EvilRu == <<"e","v","i","l",".","r","u">>
P_MalwareRu == <<"m","a","l","w","a","r","e",".","r","u">>
P_SpecExample == <<"u","p","d","a","t","e",".","m","a","l","w","a","r","e","-","c","2","s","e","r","v","e","r",".","t","k">>
P_ExampleCom == <<"e","x","a","m","p","l","e",".","c","o","m">>
P_PhishingRuNl == <<"P","H","I","S","H","I","N","G",".","R","U","\n">>
P_Hex32 == <<"D","E","A","D","B","E","E","F","D","E","A","D","B","E","E","F","D","E","A","D","B","E","E","F","D","E","A","D","B","E","E","F">>
P_Hex31 == <<"d","e","a","d","b","e","e","f","d","e","a","d","b","e","e","f","d","e","a","d","b","e","e","f","d","e","a","d","b","e","e">>

BlackIp == "192.168.100.100"
CleanIp == "10.1.1.1"
OtherIp == "10.0.0.666"
DstIp == "10.1.1.2"

\* validate_protocol (lines 95-101) leaves one of these, upper-cased
Protocols == {"TCP", "UDP", "HTTP", "DNS", "HTTPS"}

ClientTime == "2024-01-01T00:00:00"
LaterTime == "2024-01-01T00:00:01"

NetworkLog(src, protocol, payload, timestamp) ==
    [src_ip |-> src, dst_ip |-> DstIp, protocol |-> protocol,
     payload |-> payload, timestamp |-> timestamp]

\* NetworkLog.timestamp (line 86): the client's string, the default factory's
\* utcnow().isoformat() when the field is left out, None when the client sends null.
Timestamps(t) == {Some(ClientTime), Some(isoformat(t)), None}

\* The logs of the main specification: every protocol with and without a payload,
\* the HTTP payloads on HTTP and HTTPS, the DNS payloads on DNS.
Logs(t) ==
    LET srcs == {BlackIp, CleanIp}
    IN  {NetworkLog(s, p, pl, Some(ClientTime)) :
            s \in srcs \cup {OtherIp}, p \in Protocols, pl \in {None, Some(P_AuthBotnet)}}
        \cup
        {NetworkLog(s, p, Some(pl), ts) :
            s \in srcs, p \in {"HTTP", "HTTPS"},
            pl \in {<<>>, P_GetIndex, P_PostLogin}, ts \in Timestamps(t)}
        \cup
        {NetworkLog(s, "DNS", Some(pl), ts) :
            s \in srcs,
            pl \in {P_EvilRu, P_MalwareRu, P_SpecExample, P_ExampleCom, P_PhishingRuNl,
                    P_Hex32, P_Hex31},
            ts \in {Some(ClientTime), None}}

LoginLog(src, timestamp) == NetworkLog(src, "HTTP", Some(P_PostLogin), timestamp)

Repeat(x, n) == [i \in 1..n |-> x]

\* Call sequences that bring the store to the states the rules are then tried in.
Prefixes ==
    { <<>>,
      Repeat(LoginLog(BlackIp, Some(ClientTime)), Threshold - 1),
      Repeat(LoginLog(CleanIp, Some(ClientTime)), Threshold - 1),
      Repeat(LoginLog(CleanIp, Some(ClientTime)), WindowSize - 1) \o <<LoginLog(CleanIp, Some(LaterTime))>>,
      Repeat(LoginLog(BlackIp, Some(ClientTime)), Threshold)
          \o <<NetworkLog(CleanIp, "DNS", Some(P_MalwareRu), Some(ClientTime))>> }

Severities == {None, Some(<<>>), Some(<<"h","i","g","h">>), Some(MEDIUM), Some(<<"L","O","W">>)}
Limits == {None, Some(0), Some(1), Some(2), Some(-1)}

-----------------------------------------------------------------------------
(* The specifications                                                      *)

MaxCalls == 1
MaxLoginCalls == 6
MaxTicks == 2

NumRequests == 2
Requests == 1..NumRequests

LoopIdle ==
    /\ pc = [r \in Requests |-> "idle"]
    /\ req_log = [r \in Requests |-> None]
    /\ req_detected = [r \in Requests |-> <<>>]
    /\ running = 0
    /\ history = None

MlIdle ==
    /\ ml_models = [binary |-> None, multi |-> None, encoders |-> None,
                    features |-> None, attack_mapping |-> None]
    /\ models_loaded = FALSE
    /\ ml_features = None
    /\ ml_response = None

CoreIs(st) ==
    /\ alerts_database = st.db
    /\ login_attempts = st.la
    /\ arrivals = st.arrivals
    /\ issued = st.issued
    /\ response = st.response
    /\ now = 0
    /\ calls = 0

\* The rule evaluator and the endpoints on every kind of log, from the store as
\* constructed or as a first run of calls left it.
Init ==
    /\ \E p \in Prefixes : CoreIs(Replay(p, Constructed, 0))
    /\ LoopIdle
    /\ MlIdle

Next ==
    \/ \E log \in Logs(now) : calls < MaxCalls /\ analyze_traffic(log)
    \/ \E severity \in Severities, limit \in Limits : calls < MaxCalls /\ get_alerts(severity, limit)
    \/ calls < MaxCalls /\ clear_alerts
    \/ calls < MaxCalls /\ get_statistics
    \/ now < MaxTicks /\ Tick

Spec == Init /\ [][Next]_vars

\* Long runs of login attempts of two sources, with clears and queries between them.
LoginLogs ==
    {LoginLog(CleanIp, ts) : ts \in {Some(ClientTime), Some(LaterTime), None}}
    \cup {LoginLog(BlackIp, ts) : ts \in {Some(ClientTime), None}}

LoginPrefixes ==
    { <<>>,
      Repeat(LoginLog(CleanIp, Some(ClientTime)), WindowSize - 1) \o <<LoginLog(CleanIp, Some(LaterTime))>> }

InitLogin ==
    /\ \E p \in LoginPrefixes : CoreIs(Replay(p, Constructed, 0))
    /\ LoopIdle
    /\ MlIdle

NextLogin ==
    \/ \E log \in LoginLogs : calls < MaxLoginCalls /\ analyze_traffic(log)
    \/ calls < MaxLoginCalls /\ get_alerts(None, None)
    \/ calls < MaxLoginCalls /\ clear_alerts
    \/ calls < MaxLoginCalls /\ get_statistics
    \/ now < MaxTicks /\ Tick

SpecLogin == InitLogin /\ [][NextLogin]_vars

-----------------------------------------------------------------------------
(* The event loop serving /analyze                                         *)
(*                                                                         *)
(* analyze_traffic is a coroutine (async def, line 742) that uvicorn runs  *)
(* on its one event loop (line 999).  A coroutine keeps the loop until it  *)
(* awaits or returns; the handler positions below are the statements of    *)
(* analyze_log, and SuspensionPoints are those after which the coroutine   *)
(* awaits.                                                                 *)

\* A handler that would await after recording the attempt
AwaitAfterAppend == {"append"}

\* Lines 755-773 and 357-377 hold no await.
SuspensionPoints == {}

\* The running state of request r's analyze_log
Acc(r) ==
    [db |-> alerts_database, la |-> login_attempts,
     detected |-> req_detected[r], raised |-> FALSE]

\* Request r, at position pos, holds or takes the loop.
Holds(r, pos) == pc[r] = pos /\ running \in {0, r}

Waiting(r) == \E q \in Requests \ {r} : pc[q] \notin {"idle", "done", "failed"}

\* Request r's handler ran the statement at pos, which left acc, and goes on at nxt.
Ran(r, pos, acc, nxt) ==
    /\ alerts_database' = acc.db
    /\ login_attempts' = acc.la
    /\ issued' = issued \o NewlyIssued(alerts_database, acc.db)
    /\ req_detected' = [req_detected EXCEPT ![r] = acc.detected]
    /\ pc' = [pc EXCEPT ![r] = IF acc.raised THEN "except" ELSE nxt]
    /\ running' = IF pos \in SuspensionPoints THEN 0 ELSE r
    /\ history' = [history EXCEPT !.overlapped = @ \/ Waiting(r)]
    /\ UNCHANGED <<now, response, calls, req_log, mlVars>>

\* The request arrives and its body is parsed into a NetworkLog.
Receive(r, log) ==
    /\ pc[r] = "idle"
    /\ pc' = [pc EXCEPT ![r] = "queued"]
    /\ req_log' = [req_log EXCEPT ![r] = Some(log)]
    /\ UNCHANGED <<coreVars, req_detected, running, history, mlVars>>

\* line 372, rule = check_suspicious_ip, and lines 373-375
RunSuspiciousIp(r) ==
    /\ Holds(r, "queued")
    /\ arrivals' = IF IsLoginAttempt(req_log[r][1])
                   THEN StoreRecord(arrivals, req_log[r][1].src_ip,
                                    Append(Attempts(arrivals, req_log[r][1].src_ip),
                                           req_log[r][1].timestamp))
                   ELSE arrivals
    /\ Ran(r, "queued",
           Collect(Acc(r), [la |-> login_attempts,
                            res |-> check_suspicious_ip(req_log[r][1], alerts_database, now)]),
           "rule2")

\* lines 298-302
TestLoginAttempt(r) ==
    /\ Holds(r, "rule2")
    /\ arrivals' = arrivals
    /\ Ran(r, "rule2", Acc(r), IF IsLoginAttempt(req_log[r][1]) THEN "append" ELSE "rule3")

\* line 304
AppendAttempt(r) ==
    /\ Holds(r, "append")
    /\ arrivals' = arrivals
    /\ Ran(r, "append",
           [Acc(r) EXCEPT !.la = StoreRecord(login_attempts, req_log[r][1].src_ip,
                                             Append(Attempts(login_attempts, req_log[r][1].src_ip),
                                                    req_log[r][1].timestamp))],
           "truncate")

\* lines 308-309
TruncateRecord(r) ==
    /\ Holds(r, "truncate")
    /\ arrivals' = arrivals
    /\ Ran(r, "truncate",
           [Acc(r) EXCEPT !.la = StoreRecord(login_attempts, req_log[r][1].src_ip,
                                             KeepRecent(login_attempts[req_log[r][1].src_ip]))],
           "check")

\* lines 312-327, and lines 373-375
CheckRecord(r) ==
    /\ Holds(r, "check")
    /\ arrivals' = arrivals
    /\ Ran(r, "check",
           Collect(Acc(r), CheckThreshold(login_attempts, req_log[r][1], alerts_database, now)),
           "rule3")

\* line 372, rule = check_suspicious_dns, and lines 373-375
RunSuspiciousDns(r) ==
    /\ Holds(r, "rule3")
    /\ arrivals' = arrivals
    /\ Ran(r, "rule3",
           Collect(Acc(r), [la |-> login_attempts,
                            res |-> check_suspicious_dns(req_log[r][1], alerts_database, now)]),
           "return")

\* lines 759-770: the response is sent
Return(r) ==
    /\ Holds(r, "return")
    /\ pc' = [pc EXCEPT ![r] = "done"]
    /\ running' = 0
    /\ UNCHANGED <<coreVars, req_log, req_detected, history, mlVars>>

\* lines 772-773: the exception becomes an HTTP 500
Except(r) ==
    /\ Holds(r, "except")
    /\ pc' = [pc EXCEPT ![r] = "failed"]
    /\ running' = 0
    /\ UNCHANGED <<coreVars, req_log, req_detected, history, mlVars>>

-----------------------------------------------------------------------------
(* The classifier artifacts, the feature aligner, the prediction wrapper   *)
(*                                                                         *)
(* A cell of a data frame is a number Num(n), a string Str(s), or NaN.     *)

Num(n) == [num |-> n]
Str(s) == [str |-> s]
NaN == [nan |-> TRUE]

\* lines 35-41
Unloaded ==
    [binary |-> None, multi |-> None, encoders |-> None,
     features |-> None, attack_mapping |-> None]

\* lines 49-53: the order of the joblib.load calls
LoadOrder == <<"binary", "multi", "encoders", "features", "attack_mapping">>

\* lines 49-53 under the try of line 47: a joblib.load that raises leaves the
\* entries loaded before it in place and ends the loading (lines 59-61).
RECURSIVE LoadFrom(_, _, _)
LoadFrom(models, files, i) ==
    IF i > Len(LoadOrder) THEN [models |-> models, loaded |-> TRUE]
    ELSE IF files[LoadOrder[i]] = None THEN [models |-> models, loaded |-> FALSE]
    ELSE LoadFrom([models EXCEPT ![LoadOrder[i]] = files[LoadOrder[i]][1]], files, i + 1)

\* lines 43-61; disk.dir: the models directory exists; disk.files[k]: None
\* when joblib.load of the file of entry k raises, else Some(object), the
\* object being the Optional value the file unpickles to.
load_ml_models(disk) ==
    IF disk.dir THEN LoadFrom(Unloaded, disk.files, 1)
    ELSE [models |-> Unloaded, loaded |-> FALSE]

\* lines 168-210: the fields of MLFeatures, in declaration order
FieldNames ==
    <<"duration", "protocol_type", "service", "flag", "src_bytes", "dst_bytes", "land",
      "wrong_fragment", "urgent", "hot", "num_failed_logins", "logged_in",
      "num_compromised", "root_shell", "su_attempted", "num_root", "num_file_creations",
      "num_shells", "num_access_files", "num_outbound_cmds", "is_host_login",
      "is_guest_login", "count", "srv_count", "serror_rate", "srv_serror_rate",
      "rerror_rate", "srv_rerror_rate", "same_srv_rate", "diff_srv_rate",
      "srv_diff_host_rate", "dst_host_count", "dst_host_srv_count",
      "dst_host_same_srv_rate", "dst_host_diff_srv_rate", "dst_host_same_src_port_rate",
      "dst_host_srv_diff_host_rate", "dst_host_serror_rate", "dst_host_srv_serror_rate",
      "dst_host_rerror_rate", "dst_host_srv_rerror_rate">>

FieldSet == Range(FieldNames)

\* lines 170-210: the defaults
FieldDefault ==
    [f \in FieldSet |->
        CASE f = "protocol_type" -> Str("tcp")
          [] f = "service" -> Str("http")
          [] f = "flag" -> Str("SF")
          [] OTHER -> Num(0)]

\* MLFeatures(**given), lines 168-210; features.dict() (line 588) has every field.
MLFeatures(given) == [f \in FieldSet |-> IF f \in DOMAIN given THEN given[f] ELSE FieldDefault[f]]

\* line 594
categorical_cols == <<"protocol_type", "service", "flag">>

EncodedName(col) == col \o "_encoded"

\* LabelEncoder.transform of one value (line 599): its position in the sorted classes_,
\* ValueError for a value that is not among them.
transform(classes, value) ==
    IF \E i \in DOMAIN classes : Str(classes[i]) = value
    THEN [kind |-> "ok", code |-> (CHOOSE i \in DOMAIN classes : Str(classes[i]) = value) - 1]
    ELSE [kind |-> "raise", error |-> "ValueError"]

\* A fallback that would give a code of its own to the values not seen in training
UnseenCode(classes, value) ==
    IF transform(classes, value).kind = "ok"
    THEN transform(classes, value).code
    ELSE Len(classes)

\* lines 598-602: the code, or 0 when transform raises ValueError
EncodedValue(classes, value) ==
    IF transform(classes, value).kind = "ok"
    THEN transform(classes, value).code
    ELSE 0

WithColumn(df, name, cell) == [k \in DOMAIN df \cup {name} |-> IF k = name THEN cell ELSE df[k]]

\* lines 595-602, for the columns categorical_cols[i..]
RECURSIVE EncodeFrom(_, _, _)
EncodeFrom(df, encoders, i) ==
    IF i > Len(categorical_cols) THEN df
    ELSE IF categorical_cols[i] \in DOMAIN encoders
         THEN EncodeFrom(WithColumn(df, EncodedName(categorical_cols[i]),
                                    Num(EncodedValue(encoders[categorical_cols[i]],
                                                     df[categorical_cols[i]]))),
                         encoders, i + 1)
         ELSE EncodeFrom(df, encoders, i + 1)

\* line 612, pd.DataFrame(columns=training_features): a frame without rows.
\* X.row[c] is what the cell of column c holds once the frame has a row:
\* NaN until the column is assigned.
EmptyFrame(columns) == [columns |-> columns, rows |-> 0, row |-> [c \in Range(columns) |-> NaN]]

\* line 617, X[feature] = <array of one value>: a frame without rows takes
\* its index from the array, and its other columns are reindexed to NaN.
SetArray(X, feature, cell) == [X EXCEPT !.rows = 1, !.row[feature] = cell]

\* line 620, X[feature] = 0: the scalar fills the rows the frame has.
SetScalar(X, feature, n) == IF X.rows = 0 THEN X ELSE [X EXCEPT !.row[feature] = Num(n)]

\* lines 615-620, for the features X.columns[i..]
RECURSIVE FillFrom(_, _, _)
FillFrom(X, df, i) ==
    IF i > Len(X.columns) THEN X
    ELSE IF X.columns[i] \in DOMAIN df
         THEN FillFrom(SetArray(X, X.columns[i], df[X.columns[i]]), df, i + 1)
         ELSE FillFrom(SetScalar(X, X.columns[i], 0), df, i + 1)

\* line 623, X.astype(float): numbers and NaN convert, a string that is not
\* a numeral raises ValueError (the categorical values are not numerals).
astype_float(X) ==
    IF X.rows > 0 /\ \E c \in DOMAIN X.row : "str" \in DOMAIN X.row[c]
    THEN [kind |-> "raise", error |-> "ValueError", text |-> "could not convert string to float"]
    ELSE [kind |-> "frame", columns |-> X.columns, rows |-> X.rows, row |-> X.row]

\* An aligner that would take a missing ordering for an empty one
AlignDefaulted(features_entry, df) ==
    IF features_entry = None
    THEN astype_float(EmptyFrame(<<>>))
    ELSE astype_float(FillFrom(EmptyFrame(features_entry[1]), df, 1))

\* lines 605-625
AlignTo(features_entry, df) ==
    IF features_entry = None
    THEN [kind |-> "raise", error |-> "ValueError", text |-> "Feature list not loaded from training"]
    ELSE astype_float(FillFrom(EmptyFrame(features_entry[1]), df, 1))

\* lines 585-625; `col in None` (line 596) raises TypeError.
prepare_features_for_prediction(features, models) ==
    IF models.encoders = None
    THEN [kind |-> "raise", error |-> "TypeError",
          text |-> "argument of type 'NoneType' is not iterable"]
    ELSE AlignTo(models.features, EncodeFrom(features, models.encoders[1], 1))

\* lines 213-222, as the wrappers fill them; timestamp is line 222
MLPredictionResponse(status, model_available, prediction, prediction_label, confidence, probabilities, message) ==
    [status |-> status, model_available |-> model_available, prediction |-> prediction,
     prediction_label |-> prediction_label, confidence |-> confidence,
     probabilities |-> probabilities, message |-> message]

\* An answer for a missing classifier that would still call it available
UnavailableAsFailed ==
    MLPredictionResponse("error", TRUE, None, None, None, None,
                         "ML model not loaded. Please train the model first.")

\* lines 630-636, 682-688
Unavailable ==
    MLPredictionResponse("error", FALSE, None, None, None, None,
                         "ML model not loaded. Please train the model first.")

\* An answer for a failed prediction that would call the classifier unavailable
FailedAsUnavailable(text) ==
    MLPredictionResponse("error", FALSE, None, None, None, None, "Prediction failed: " \o text)

\* lines 668-677, 725-734; text is str(e)
Failed(text) ==
    MLPredictionResponse("error", TRUE, None, None, None, None, "Prediction failed: " \o text)

\* line 651
BinaryLabel(prediction) == IF prediction = 0 THEN "Normal" ELSE "Attack"

\* line 705, prediction.upper()
MultiLabel(prediction) == StrUpper(prediction)

\* A probability is counted in units of 10^-5; round(p, 4) keeps the
\* nearest multiple of 10^-4 (no probability drawn lies halfway).
round4(p) == ((p + 5) \div 10) * 10

BinaryClasses == {0, 1}
MultiClasses ==
    { <<"n","o","r","m","a","l">>, <<"d","o","s">>, <<"p","r","o","b","e">>,
      <<"r","2","l">>, <<"u","2","r">> }

\* line 702, ml_models['multi'].classes_: the labels, sorted
classes_ ==
    << <<"d","o","s">>, <<"n","o","r","m","a","l">>, <<"p","r","o","b","e">>,
       <<"r","2","l">>, <<"u","2","r">> >>

\* What predict_proba can give for the one row: a probability per class
BinaryProbabilities == { <<87654, 12346>>, <<12346, 87654>> }
MultiProbabilities == { <<10004, 60006, 10000, 10000, 9990>> }

RaisedInference == [kind |-> "raise", error |-> "ValueError", text |-> "inference failed"]

\* What predict and predict_proba of a frozen classifier can do with the
\* aligned frame (lines 647-648, 698-699): raise, or name one of its classes
\* and give the probabilities; a frame without rows has no sample to
\* predict, and the call raises.
Predictions(X, classes, probabilities) ==
    IF X.rows = 0 THEN {RaisedInference}
    ELSE {RaisedInference}
         \cup {[kind |-> "ok", prediction |-> c, probabilities |-> v] :
                  c \in classes, v \in probabilities}

\* lines 647-665
BinaryAnswer(p) ==
    IF p.kind = "raise" THEN Failed(p.text)
    ELSE MLPredictionResponse("success", TRUE, Some(ToString(p.prediction)),
                              Some(BinaryLabel(p.prediction)),
                              Some(round4(p.probabilities[p.prediction + 1])),
                              Some([Normal |-> round4(p.probabilities[1]),
                                    Attack |-> round4(p.probabilities[2])]),
                              "Prediction: " \o BinaryLabel(p.prediction))

\* lines 698-722
MultiAnswer(p) ==
    IF p.kind = "raise" THEN Failed(p.text)
    ELSE MLPredictionResponse("success", TRUE, Some(p.prediction),
                              Some(MultiLabel(p.prediction)),
                              Some(round4(p.probabilities[IndexIn(p.prediction, classes_)])),
                              Some([c \in {StrUpper(classes_[i]) : i \in DOMAIN classes_} |->
                                      round4(p.probabilities[
                                          CHOOSE i \in DOMAIN classes_ : StrUpper(classes_[i]) = c])]),
                              "Prediction")

\* lines 638-677, from the aligned frame on
BinaryAnswers(X) ==
    IF X.kind = "raise" THEN {Failed(X.text)}
    ELSE {BinaryAnswer(p) : p \in Predictions(X, BinaryClasses, BinaryProbabilities)}

\* lines 690-734, from the aligned frame on
MultiAnswers(X) ==
    IF X.kind = "raise" THEN {Failed(X.text)}
    ELSE {MultiAnswer(p) : p \in Predictions(X, MultiClasses, MultiProbabilities)}

\* The call returns one of the answers; aligned is what the aligner gave
\* (None: it was not called), inferred tells whether the classifier was called.
Answers(op, features, aligned, inferred, answers) ==
    /\ \E a \in answers :
          ml_response' = Some([op |-> op, aligned |-> aligned, inferred |-> inferred,
                               answer |-> a, timestamp |-> isoformat(now)])
    /\ ml_features' = Some(features)
    /\ UNCHANGED <<coreVars, loopVars, ml_models, models_loaded>>

PredictWith(op, features, X, answers) ==
    Answers(op, features, Some(X), X.kind # "raise", answers)

\* lines 628-677
predict_binary(features) ==
    IF ~models_loaded \/ ml_models.binary = None
    THEN Answers("predict_binary", features, None, FALSE, {Unavailable})
    ELSE PredictWith("predict_binary", features,
                     prepare_features_for_prediction(features, ml_models),
                     BinaryAnswers(prepare_features_for_prediction(features, ml_models)))

\* lines 680-734
predict_multiclass(features) ==
    IF ~models_loaded \/ ml_models.multi = None
    THEN Answers("predict_multiclass", features, None, FALSE, {Unavailable})
    ELSE PredictWith("predict_multiclass", features,
                     prepare_features_for_prediction(features, ml_models),
                     MultiAnswers(prepare_features_for_prediction(features, ml_models)))

\* prepare_features_for_prediction called on its own (lines 585-625)
Align(features) ==
    /\ ml_response' = Some([op |-> "prepare_features_for_prediction",
                            aligned |-> Some(prepare_features_for_prediction(features, ml_models))])
    /\ ml_features' = Some(features)
    /\ UNCHANGED <<coreVars, loopVars, ml_models, models_loaded>>

-----------------------------------------------------------------------------
(* The claims about the rule evaluator and the store                       *)

Analyzed == response.op = "analyze_traffic"

\* The positions of the alerts of one type in a list of alerts
OfType(alerts, type) == {i \in DOMAIN alerts : alerts[i].alert_type = type}

LastTen(seen) == SubSeq(seen, Max(1, Len(seen) - 9), Len(seen))

\* The patterns that match a DNS payload, by position in the list
Matching(payload) ==
    {k \in DOMAIN SUSPICIOUS_DNS_PATTERNS : re_search(SUSPICIOUS_DNS_PATTERNS[k], StrLower(payload))}

Least(S) == CHOOSE k \in S : \A j \in S : k <= j

\* What C1 says of the call just answered: a qualifying request of a source is
\* its n-th since the record was empty; it yields no EXCESSIVE_LOGIN_ATTEMPTS alert
\* for n in 1..4 and exactly one, of severity MEDIUM, for n >= 5.
Cadence ==
    LET log == response.log
        n == Len(arrivals[log.src_ip])
        hits == OfType(response.alerts, "EXCESSIVE_LOGIN_ATTEMPTS")
    IN  IF n < 5 THEN hits = {}
        ELSE Cardinality(hits) = 1 /\ \A i \in hits : response.alerts[i].severity = MEDIUM

\* C1: from an empty attempt record, consecutive HTTP logs of a source whose
\* payload contains a login keyword yield no EXCESSIVE_LOGIN_ATTEMPTS alert on
\* requests 1 to 4 and one (MEDIUM) on request 5 and on every later one, until the
\* tracker is cleared, whatever other sources send in between.
C1_LoginCadence ==
    (Analyzed /\ IsLoginAttempt(response.log)) => Cadence

\* Every qualifying log of the source since the last clear carried a timestamp.
AllTimestamped(src) == \A i \in DOMAIN arrivals[src] : arrivals[src][i] # None

\* C1 for the sources whose qualifying logs all carry a timestamp
C1_LoginCadenceTimestamped ==
    (Analyzed /\ IsLoginAttempt(response.log) /\ AllTimestamped(response.log.src_ip)) => Cadence

C1_FifthAndLaterAlert ==
    /\ Analyzed /\ IsLoginAttempt(response.log)
    /\ Len(arrivals[response.log.src_ip]) > 5
    /\ OfType(response.alerts, "EXCESSIVE_LOGIN_ATTEMPTS") # {}
    /\ Cardinality(DOMAIN arrivals) > 1

\* C2: between calls, every source's attempt record holds at most 10 timestamps
\* and is the last 10 of that source's qualifying timestamps since the last clear,
\* in arrival order (the oldest is dropped, the newest is last).
C2_RecordIsLastTen ==
    /\ DOMAIN login_attempts = DOMAIN arrivals
    /\ \A src \in DOMAIN login_attempts :
          /\ Len(login_attempts[src]) <= 10
          /\ login_attempts[src] = LastTen(arrivals[src])

\* C2 for the sources whose qualifying logs all carry a timestamp
C2_RecordIsLastTenTimestamped ==
    \A src \in DOMAIN arrivals :
        AllTimestamped(src) =>
            /\ src \in DOMAIN login_attempts
            /\ Len(login_attempts[src]) <= 10
            /\ login_attempts[src] = LastTen(arrivals[src])

\* An eleventh attempt arrived and the record is no longer the first ten.
C2_OldestEvicted ==
    \E src \in DOMAIN login_attempts :
        /\ Len(arrivals[src]) > 10
        /\ login_attempts[src] # SubSeq(arrivals[src], 1, 10)

BlacklistVerdict ==
    LET hits == OfType(response.alerts, "SUSPICIOUS_SOURCE_IP")
    IN  IF response.log.src_ip \in SUSPICIOUS_IPS
        THEN Cardinality(hits) = 1 /\ \A i \in hits : response.alerts[i].severity = HIGH
        ELSE hits = {}

\* C3: a log of a blacklisted source gets exactly one SUSPICIOUS_SOURCE_IP alert,
\* of severity HIGH, whatever its protocol and payload and whatever the store
\* holds; a log of any other source gets none.
C3_BlacklistedSource == Analyzed => BlacklistVerdict

\* C3 for the logs that carry a timestamp
C3_BlacklistedSourceTimestamped == (Analyzed /\ response.log.timestamp # None) => BlacklistVerdict

C3_BlacklistedSeen ==
    /\ Analyzed /\ response.log.src_ip \in SUSPICIOUS_IPS
    /\ response.log.protocol = "DNS" /\ Len(alerts_database) > 4
    /\ OfType(response.alerts, "SUSPICIOUS_SOURCE_IP") # {}

DnsVerdict ==
    LET log == response.log
        hits == OfType(response.alerts, "SUSPICIOUS_DNS_QUERY")
    IN  IF log.protocol = "DNS" /\ Truthy(log.payload) /\ Matching(log.payload[1]) # {}
        THEN /\ Cardinality(hits) = 1
             /\ \A i \in hits :
                   /\ response.alerts[i].severity = HIGH
                   /\ response.alerts[i].metadata.matched_pattern =
                          SUSPICIOUS_DNS_PATTERNS[Least(Matching(log.payload[1]))].src
        ELSE hits = {}

\* C4: a DNS log whose payload matches a pattern gets exactly one
\* SUSPICIOUS_DNS_QUERY alert (HIGH) whose matched_pattern is the first pattern of
\* the list that matches the lower-cased payload; any other log gets none.
C4_FirstPatternWins == Analyzed => DnsVerdict

\* C4 for the logs that carry a timestamp
C4_FirstPatternWinsTimestamped == (Analyzed /\ response.log.timestamp # None) => DnsVerdict

C4_SeveralPatternsMatch ==
    /\ Analyzed /\ response.log.protocol = "DNS" /\ Truthy(response.log.payload)
    /\ Cardinality(Matching(response.log.payload[1])) > 2
    /\ OfType(response.alerts, "SUSPICIOUS_DNS_QUERY") # {}

RuleRank(type) ==
    CASE type = "SUSPICIOUS_SOURCE_IP" -> 1
      [] type = "EXCESSIVE_LOGIN_ATTEMPTS" -> 2
      [] type = "SUSPICIOUS_DNS_QUERY" -> 3

\* What C5 says of one call of analyze_log: every rule had its effect, the
\* returned alerts are in rule order, and the sink grew by exactly them.
AllRulesRan ==
    LET log == response'.log
        out == response'.alerts
        record == LastTen(Append(Attempts(login_attempts, log.src_ip), log.timestamp))
    IN  /\ alerts_database' = alerts_database \o out
        /\ \A i, j \in DOMAIN out : i < j => RuleRank(out[i].alert_type) < RuleRank(out[j].alert_type)
        /\ (log.src_ip \in SUSPICIOUS_IPS) <=> (OfType(out, "SUSPICIOUS_SOURCE_IP") # {})
        /\ IF IsLoginAttempt(log)
           THEN /\ login_attempts'[log.src_ip] = record
                /\ (Len(record) >= 5) <=> (OfType(out, "EXCESSIVE_LOGIN_ATTEMPTS") # {})
           ELSE login_attempts' = login_attempts
        /\ (log.protocol = "DNS" /\ Truthy(log.payload) /\ Matching(log.payload[1]) # {})
              <=> (OfType(out, "SUSPICIOUS_DNS_QUERY") # {})

AnalyzeStep == calls' = calls + 1 /\ response'.op = "analyze_traffic"

\* C5: analyze_log runs the three rules on every log, in the order suspicious-IP,
\* login-attempts, suspicious-DNS; an alert of an earlier rule never stops a later
\* rule; the sink after the call is the sink before it followed by the returned
\* alerts, and is unchanged when none is returned.
C5_AllRulesRunInOrder == [][AnalyzeStep => AllRulesRan]_vars

\* C5 for the logs that carry a timestamp
C5_AllRulesRunInOrderTimestamped ==
    [][(AnalyzeStep /\ response'.log.timestamp # None) => AllRulesRan]_vars

C5_BlacklistedAndLogin ==
    /\ Analyzed
    /\ Len(response.alerts) = 2
    /\ response.alerts[1].alert_type = "SUSPICIOUS_SOURCE_IP"
    /\ response.alerts[2].alert_type = "EXCESSIVE_LOGIN_ATTEMPTS"

\* C6: no two alerts ever created, across analyze_log and clear_alerts calls,
\* carry the same alert_id.
C6_AlertIdsUnique ==
    \A i, j \in DOMAIN issued : i # j => issued[i].alert_id # issued[j].alert_id

\* Within one sink the ids are distinct.
C6_SinkIdsUnique ==
    \A i, j \in DOMAIN alerts_database :
        i # j => alerts_database[i].alert_id # alerts_database[j].alert_id

\* Alerts were created, the store was cleared, and alerts were created again.
C6_IssuedAcrossClear ==
    /\ alerts_database # <<>>
    /\ Len(issued) > Len(alerts_database)
    /\ response.op = "analyze_traffic"

\* C8: clear_alerts leaves the sink and the tracker empty; statistics and alert
\* queries that follow it report nothing; and an EXCESSIVE_LOGIN_ATTEMPTS alert
\* is raised for a source only once it has sent 5 qualifying logs since the last clear.
C8_ClearResets ==
    [][ /\ (calls' = calls + 1 /\ response'.op = "clear_alerts") =>
              (alerts_database' = <<>> /\ DOMAIN login_attempts' = {})
        /\ (response.op = "clear_alerts" /\ response'.op = "get_statistics") =>
              /\ response'.total_alerts = 0
              /\ DOMAIN response'.by_severity = {}
              /\ DOMAIN response'.by_type = {}
              /\ response'.monitored_ips = 0
        /\ (response.op = "clear_alerts" /\ response'.op = "get_alerts") =>
              /\ response'.alerts = <<>>
              /\ response'.total_alerts = 0
              /\ response'.filtered_count = 0
        /\ (calls' = calls + 1 /\ response'.op = "get_alerts") =>
              \A i \in DOMAIN response'.alerts :
                  \E j \in DOMAIN alerts_database : response'.alerts[i] = alerts_database[j]
        /\ (AnalyzeStep /\ OfType(response'.alerts, "EXCESSIVE_LOGIN_ATTEMPTS") # {}) =>
              Len(arrivals'[response'.log.src_ip]) >= 5
      ]_vars

\* A source that had crossed the threshold before a clear raises the alert
\* again with its fifth log after it.
C8_CrossedAgainAfterClear ==
    /\ Analyzed
    /\ OfType(response.alerts, "EXCESSIVE_LOGIN_ATTEMPTS") # {}
    /\ Len(arrivals[response.log.src_ip]) = 5
    /\ \E i \in 1..(Len(issued) - Len(alerts_database)) :
          /\ issued[i].alert_type = "EXCESSIVE_LOGIN_ATTEMPTS"
          /\ issued[i].src_ip = response.log.src_ip

\* C14: every stored alert has severity MEDIUM or HIGH, fixed by its type:
\* SUSPICIOUS_SOURCE_IP and SUSPICIOUS_DNS_QUERY are HIGH,
\* EXCESSIVE_LOGIN_ATTEMPTS is MEDIUM; no other type is stored.
C14_SeverityByType ==
    \A i \in DOMAIN alerts_database :
        \/ /\ alerts_database[i].alert_type \in {"SUSPICIOUS_SOURCE_IP", "SUSPICIOUS_DNS_QUERY"}
           /\ alerts_database[i].severity = <<"H","I","G","H">>
        \/ /\ alerts_database[i].alert_type = "EXCESSIVE_LOGIN_ATTEMPTS"
           /\ alerts_database[i].severity = <<"M","E","D","I","U","M">>

\* A call stored an alert, and the sink holds alerts of all three types.
C14_AllTypesStored ==
    /\ calls > 0 /\ Analyzed /\ response.alerts # <<>>
    /\ \A type \in {"SUSPICIOUS_SOURCE_IP", "EXCESSIVE_LOGIN_ATTEMPTS", "SUSPICIOUS_DNS_QUERY"} :
        OfType(alerts_database, type) # {}

\* The logs the login-attempt rule counts, as C15 names them: protocol HTTP,
\* a payload that is present and not empty, and a credential keyword in the
\* case-folded payload.
Qualifies(log) ==
    /\ log.protocol = "HTTP"
    /\ log.payload # None /\ log.payload[1] # <<>>
    /\ \E k \in DOMAIN HTTP_SUSPICIOUS_KEYWORDS :
           StrContains(StrLower(log.payload[1]), HTTP_SUSPICIOUS_KEYWORDS[k])

\* C15: an analyze_log call on a log that does not qualify leaves the whole
\* tracker as it is, keys included; a call on a qualifying log changes at
\* most the record of the log's own source.
C15_TrackerFrame ==
    [][AnalyzeStep =>
          IF Qualifies(response'.log)
          THEN /\ DOMAIN login_attempts' \subseteq DOMAIN login_attempts \cup {response'.log.src_ip}
               /\ \A src \in DOMAIN login_attempts :
                     src # response'.log.src_ip =>
                        (src \in DOMAIN login_attempts' /\ login_attempts'[src] = login_attempts[src])
          ELSE login_attempts' = login_attempts
      ]_vars

\* An HTTPS log with a credential keyword was analyzed while another
\* source has a record, and the tracker has no key for its own source.
C15_HttpsLoginIgnored ==
    /\ Analyzed
    /\ response.log.protocol = "HTTPS"
    /\ response.log.payload = Some(P_PostLogin)
    /\ response.log.src_ip \notin DOMAIN login_attempts
    /\ DOMAIN login_attempts # {}

\* What C16 says of a get_alerts answer: wanted is the sink filtered by the
\* severity asked for.
LimitedTo(wanted, answer) ==
    /\ answer.limit # None =>
          /\ Len(answer.alerts) <= answer.limit[1]
          /\ answer.alerts = SubSeq(wanted, Len(wanted) - Len(answer.alerts) + 1, Len(wanted))
          /\ Len(answer.alerts) = Min(Len(wanted), answer.limit[1])
    /\ answer.limit = None => answer.alerts = wanted
    /\ answer.filtered_count = Len(answer.alerts)

WantedOf(db, severity) ==
    IF severity # None /\ severity[1] # <<>>
    THEN SelectSeq(db, LAMBDA a : a.severity = StrUpper(severity[1]))
    ELSE db

QueryStep == calls' = calls + 1 /\ response'.op = "get_alerts"

GetAlertsContract ==
    /\ LimitedTo(WantedOf(alerts_database, response'.severity), response')
    /\ response'.total_alerts = Len(alerts_database)
    /\ alerts_database' = alerts_database
    /\ login_attempts' = login_attempts

\* C16, as stated: get_alerts with a limit n returns at most n alerts, the
\* most recent of the severity-filtered sink in insertion order; with a
\* severity only alerts of that severity; total_alerts is the sink size,
\* filtered_count the number returned; sink and tracker are unchanged.
C16_LimitAndSeverity == [][QueryStep => GetAlertsContract]_vars

\* C16 for the limits that are positive, and for no limit
C16_LimitAndSeverityPositive ==
    [][(QueryStep /\ (response'.limit = None \/ response'.limit[1] > 0)) => GetAlertsContract]_vars

\* A query with a severity and a limit cut a sink of several severities.
C16_FilteredAndCut ==
    /\ response.op = "get_alerts"
    /\ response.severity = Some(<<"h","i","g","h">>) /\ response.limit = Some(2)
    /\ Len(response.alerts) = 2
    /\ response.total_alerts > response.filtered_count
    /\ OfType(alerts_database, "EXCESSIVE_LOGIN_ATTEMPTS") # {}

\* C17: one analyze_log call returns at most two alerts, at most one of
\* each type, and never EXCESSIVE_LOGIN_ATTEMPTS together with
\* SUSPICIOUS_DNS_QUERY.
C17_AtMostTwoAlerts ==
    Analyzed =>
        /\ Len(response.alerts) <= 2
        /\ \A i, j \in DOMAIN response.alerts :
              i # j => response.alerts[i].alert_type # response.alerts[j].alert_type
        /\ ~ /\ OfType(response.alerts, "EXCESSIVE_LOGIN_ATTEMPTS") # {}
             /\ OfType(response.alerts, "SUSPICIOUS_DNS_QUERY") # {}

\* An HTTP log whose payload holds a credential keyword and matches a DNS
\* pattern crossed the threshold: the login alert is raised, the DNS one is not.
C17_LoginWithDnsPattern ==
    /\ Analyzed
    /\ response.log.protocol = "HTTP"
    /\ response.log.payload = Some(P_AuthBotnet)
    /\ OfType(response.alerts, "EXCESSIVE_LOGIN_ATTEMPTS") # {}

-----------------------------------------------------------------------------
(* The event loop: specification and claim                                 *)

ConcLogs ==
    {LoginLog(CleanIp, ts) : ts \in {Some(ClientTime), Some(LaterTime), None}}
    \cup {LoginLog(BlackIp, Some(ClientTime)),
          NetworkLog(CleanIp, "DNS", Some(P_MalwareRu), Some(ClientTime))}

ConcPrefixes ==
    { Repeat(LoginLog(CleanIp, Some(ClientTime)), Threshold - 2),
      Repeat(LoginLog(CleanIp, Some(ClientTime)), WindowSize - 1) }

InitConc ==
    /\ \E p \in ConcPrefixes :
          /\ CoreIs(Replay(p, Constructed, 0))
          /\ history = [base |-> Replay(p, Constructed, 0), overlapped |-> FALSE]
    /\ pc = [r \in Requests |-> "idle"]
    /\ req_log = [r \in Requests |-> None]
    /\ req_detected = [r \in Requests |-> <<>>]
    /\ running = 0
    /\ MlIdle

NextConc ==
    \/ \E r \in Requests, log \in ConcLogs : Receive(r, log)
    \/ \E r \in Requests : RunSuspiciousIp(r)
    \/ \E r \in Requests : TestLoginAttempt(r)
    \/ \E r \in Requests : AppendAttempt(r)
    \/ \E r \in Requests : TruncateRecord(r)
    \/ \E r \in Requests : CheckRecord(r)
    \/ \E r \in Requests : RunSuspiciousDns(r)
    \/ \E r \in Requests : Return(r)
    \/ \E r \in Requests : Except(r)

SpecConc == InitConc /\ [][NextConc]_vars

Finished == {r \in Requests : pc[r] \in {"done", "failed"}}
Quiescent == \A r \in Requests : pc[r] \in {"idle", "queued", "done", "failed"}

\* The orders in which the requests of a set can be served one after the other
Orders(S) == {o \in [1..Cardinality(S) -> S] : \A i, j \in DOMAIN o : i # j => o[i] # o[j]}

\* Serving the requests o[i..] one at a time from the store st gives every
\* request the answer it got and leaves the store as it is now.
RECURSIVE Serves(_, _, _)
Answered(o, i, out) ==
    /\ (out.response.http = 200) <=> (pc[o[i]] = "done")
    /\ (out.response.http = 200) => (out.response.alerts = req_detected[o[i]])
    /\ Serves(o, i + 1, out)

Serves(o, i, st) ==
    IF i > Len(o)
    THEN st.db = alerts_database /\ st.la = login_attempts
    ELSE Answered(o, i, AnalyzeOutcome(req_log[o[i]][1], st, now))

\* A request between its append and its check holds the event loop, so no
\* other handler runs a statement in between.
UnitIsAtomic == \A r \in Requests : pc[r] \in {"truncate", "check"} => running = r

\* C7: concurrent /analyze requests run the append, the truncation and the
\* threshold check of a source's record as one unit each: no other handler
\* runs in between, and whenever no handler is under way the store and every
\* answer given are those of serving the finished requests in some serial order.
C7_RequestsSerialize ==
    /\ UnitIsAtomic
    /\ Quiescent => \E o \in Orders(Finished) : Serves(o, 1, history.base)

\* Two requests of one source were in flight together, both are answered, and
\* the threshold was crossed by exactly one of them.
C7_ConcurrentCrossing ==
    /\ history # None /\ history.overlapped
    /\ Finished = Requests
    /\ \A r \in Requests : req_log[r][1].src_ip = CleanIp /\ IsLoginAttempt(req_log[r][1])
    /\ Cardinality({r \in Requests : req_detected[r] # <<>>}) = 1
    /\ Len(login_attempts[CleanIp]) >= Threshold

-----------------------------------------------------------------------------
(* The feature aligner and the prediction wrapper: specification, claims   *)

\* The classes_ of the encoders, sorted as LabelEncoder.fit leaves them
TrainedEncoders ==
    [protocol_type |-> <<"icmp", "tcp", "udp">>,
     service |-> <<"ftp", "http", "smtp">>,
     flag |-> <<"REJ", "S0", "SF">>]

EncoderSets ==
    { TrainedEncoders,
      [protocol_type |-> <<"icmp", "tcp", "udp">>, flag |-> <<"REJ", "S0", "SF">>],
      [protocol_type |-> <<"tcp">>] }

\* Trained feature-name orderings
T_Kdd ==
    SelectSeq(FieldNames, LAMBDA f : f \notin Range(categorical_cols))
    \o <<"protocol_type_encoded", "service_encoded", "flag_encoded">>
T_Small == <<"duration", "protocol_type_encoded", "src_bytes", "service_encoded">>
T_Drift == <<"difficulty", "duration", "flag_encoded", "level">>
T_Foreign == <<"difficulty", "level">>
T_Raw == <<"duration", "protocol_type", "src_bytes">>

Orderings == {T_Kdd, T_Small, T_Drift, T_Foreign, T_Raw}

\* The files of a models directory: the file of entry `failing` does not load,
\* the file of entry `empty` holds a pickled None.
Files(encoders, ordering, failing, empty) ==
    [k \in Range(LoadOrder) |->
        IF k = failing THEN None
        ELSE IF k = empty THEN Some(None)
        ELSE CASE k = "encoders" -> Some(Some(encoders))
               [] k = "features" -> Some(Some(ordering))
               [] OTHER -> Some(Some(k))]

Disks ==
    { [dir |-> d, files |-> Files(e, t, failing, empty)] :
        d \in BOOLEAN, e \in EncoderSets, t \in Orderings,
        failing \in Range(LoadOrder) \cup {"none"},
        empty \in {"none", "binary", "multi", "features"} }

FeatureRecords ==
    { MLFeatures([protocol_type |-> Str(p), service |-> Str(sv), flag |-> Str(fl),
                  duration |-> Num(d)]) :
        p \in {"tcp", "gre"}, sv \in {"http", "gopher"}, fl \in {"SF", "OTH"}, d \in {0, 5} }

InitML ==
    /\ CoreIs(Constructed)
    /\ LoopIdle
    /\ \E disk \in Disks :
          /\ ml_models = load_ml_models(disk).models
          /\ models_loaded = load_ml_models(disk).loaded
    /\ ml_features = None
    /\ ml_response = None

NextML ==
    \/ \E f \in FeatureRecords : Align(f)
    \/ \E f \in FeatureRecords : predict_binary(f)
    \/ \E f \in FeatureRecords : predict_multiclass(f)

SpecML == InitML /\ [][NextML]_vars

Called == ml_response # None
Aligned == Called /\ ml_response[1].aligned # None
Frame == ml_response[1].aligned[1]

\* The columns the aligner copies from: the fields and the encoded columns
InputFrame == EncodeFrom(ml_features[1], ml_models.encoders[1], 1)

\* C9, as stated: with the trained ordering loaded, the aligner returns one
\* row whose columns are exactly the trained ordering, each trained name
\* that is a field or an encoded column carries that value, each other
\* trained name is 0, and the call does not raise.
C9_AlignedToTrainedOrdering ==
    (Aligned /\ ml_models.features # None) =>
        /\ Frame.kind = "frame"
        /\ Frame.rows = 1
        /\ Frame.columns = ml_models.features[1]
        /\ \A c \in Range(Frame.columns) :
              Frame.row[c] = IF c \in DOMAIN InputFrame THEN InputFrame[c] ELSE Num(0)

\* The aligner got an ordering whose first name is neither a field nor an
\* encoded column, and returned a frame.
C9_LeadingNameAbsent ==
    /\ Aligned /\ ml_models.features # None
    /\ Frame.kind = "frame"
    /\ Frame.columns # <<>> /\ Frame.columns[1] \notin DOMAIN InputFrame
    /\ \E c \in Range(Frame.columns) : c \in DOMAIN InputFrame

Unseen(col) ==
    transform(ml_models.encoders[1][col], ml_features[1][col]).kind = "raise"

Predicted == Called /\ ml_response[1].op \in {"predict_binary", "predict_multiclass"}

Answer == ml_response[1].answer

\* The classifier the wrapper of the last call uses
Requested == IF ml_response[1].op = "predict_binary" THEN ml_models.binary ELSE ml_models.multi

NoPrediction ==
    /\ Answer.prediction = None
    /\ Answer.prediction_label = None
    /\ Answer.confidence = None
    /\ Answer.probabilities = None

\* C11: when the artifact load did not succeed or the requested classifier
\* is not loaded, the prediction call answers status "error" with
\* model_available false and no prediction, label, confidence or
\* probabilities, and neither the aligner nor the classifier is called.
C11_UnloadedIsUnavailable ==
    (Predicted /\ (~models_loaded \/ Requested = None)) =>
        /\ Answer.status = "error"
        /\ Answer.model_available = FALSE
        /\ NoPrediction
        /\ ml_response[1].aligned = None
        /\ ~ml_response[1].inferred

\* A prediction was asked of a classifier that is in memory while the load
\* as a whole did not succeed.
C11_LoadedButLoadFailed ==
    /\ Predicted
    /\ ~models_loaded
    /\ Requested # None
    /\ Answer.model_available = FALSE

IsUnavailable == Answer.model_available = FALSE /\ Answer.status = "error" /\ NoPrediction
IsSuccess ==
    /\ Answer.status = "success" /\ Answer.model_available = TRUE
    /\ Answer.prediction # None /\ Answer.prediction_label # None
    /\ Answer.confidence # None /\ Answer.probabilities # None
IsFailed == Answer.status = "error" /\ Answer.model_available = TRUE /\ NoPrediction

ErrorTexts ==
    { "could not convert string to float", "Feature list not loaded from training",
      "argument of type 'NoneType' is not iterable", "inference failed" }

\* C12: every prediction call ends in exactly one of UNAVAILABLE, SUCCESS
\* and FAILED; with a loaded classifier it is SUCCESS or FAILED; a failure of
\* the aligner, and a call of the classifier that gives no prediction, end
\* in FAILED with a message that carries the error; SUCCESS comes only from
\* an aligned row the classifier was called on.
C12_ThreeTerminalResults ==
    Predicted =>
        /\ Cardinality({k \in {"unavailable", "success", "failed"} :
                            \/ k = "unavailable" /\ IsUnavailable
                            \/ k = "success" /\ IsSuccess
                            \/ k = "failed" /\ IsFailed}) = 1
        /\ (models_loaded /\ Requested # None) => (IsSuccess \/ IsFailed)
        /\ (ml_response[1].aligned # None /\ Frame.kind = "raise") =>
              (IsFailed /\ Answer.message = "Prediction failed: " \o Frame.text)
        /\ IsFailed => Answer.message \in {"Prediction failed: " \o t : t \in ErrorTexts}
        /\ IsSuccess => (ml_response[1].inferred /\ Frame.kind = "frame" /\ Frame.rows = 1)

\* The aligner raised under a prediction call with a loaded classifier.
C12_AlignerRaisedUnderCall ==
    /\ Predicted
    /\ models_loaded /\ Requested # None
    /\ ml_response[1].aligned # None /\ Frame.kind = "raise"
    /\ Answer.message = "Prediction failed: could not convert string to float"

====
